---- MODULE Spec2Model ----
(***************************************************************************)
(* Aho-Corasick automaton of ahrav/aho-corasick: the construction-time     *)
(* trie (TrieBuilder), its compilation into a dense transition table       *)
(* (Build), the scan (Walk, Match, MatchFirst), the persistence codec      *)
(* (Encode, Decode) and the pooled result buffers.                         *)
(*                                                                         *)
(* Pointers to builder states are modelled by the id of the state pointed  *)
(* to; the nil pointer is 0 (no pointer to states[0] is ever stored, and   *)
(* Build writes 0 for a nil link).  Byte strings are sequences of byte     *)
(* values; Go's 0-based positions are kept, so input[i] of the code is     *)
(* input[i + 1] here.                                                      *)
(***************************************************************************)
EXTENDS Integers, Sequences, FiniteSets, TLC

-----------------------------------------------------------------------------
(* Bounds of the model *)

\* most AddPattern calls made on one builder
MaxPatterns == 2
\* longest pattern added
MaxPatLen == 3
\* longest input scanned
MaxInputLen == 3

\* Bytes that occur in patterns ("a", "b"), and bytes that occur in inputs
\* ("a", "b" and "x", a byte that is in no pattern).  The code's tables have
\* a column for each of the 256 byte values; the model's have one for each
\* byte of Alphabet.
PatternBytes == {97, 98}
Alphabet == {97, 98, 120}

RECURSIVE SeqsUpTo(_, _)
SeqsUpTo(S, n) ==
    IF n = 0 THEN {<<>>}
    ELSE LET shorter == SeqsUpTo(S, n - 1)
         IN shorter \cup {Append(q, x) : q \in {r \in shorter : Len(r) = n - 1}, x \in S}

Patterns == SeqsUpTo(PatternBytes, MaxPatLen)
Inputs == SeqsUpTo(Alphabet, MaxInputLen)

-----------------------------------------------------------------------------
(* Program constants *)

rootState == 1
nilState == 0

VARIABLES
    states,       \* TrieBuilder.states: the arena, a function on 0 .. n-1
    numPatterns,  \* TrieBuilder.numPatterns
    added,        \* history: the patterns passed to AddPattern, in call order
    trie,         \* the Trie returned by Build, or NoTrie before Build
    scan,         \* the last scan made on trie and what it returned
    stream,       \* the bytes Encode wrote (as a reader then finds them), or NoStream
    damage,       \* history: what happened to stream since Encode wrote it
    decoded,      \* what Decode returned for stream, or NoDecode
    heap,         \* the Match structs allocated: address -> Match
    arrays,       \* the backing arrays of the []*Match slices: address -> elements
    matchPool,    \* trie.matchPool: the slices ([arr, len]) it holds
    matchStructPool, \* trie.matchStructPool: the addresses of the structs it holds
    procs         \* the concurrent scans: scan id -> its call and position

poolVars == <<heap, arrays, matchPool, matchStructPool, procs>>
vars == <<states, numPatterns, added, trie, scan, stream, damage, decoded, poolVars>>

NoTrie == [built |-> FALSE]
NoScan == [op |-> "none"]
NoStream == <<-1>>
NoDecode == [done |-> FALSE]

-----------------------------------------------------------------------------
(* TrieBuilder *)

NumStates(sts) == Cardinality(DOMAIN sts)

\* the empty map[byte]*state
EmptyTrans == [c \in {} |-> 0]

\* addState: appends a fresh state whose id is its index in the arena
addState(sts, value, parent) ==
    LET id == NumStates(sts)
        s == [id |-> id, value |-> value, parent |-> parent, trans |-> EmptyTrans,
              dict |-> 0, failLink |-> 0, dictLink |-> 0, pattern |-> 0]
    IN [i \in 0 .. id |-> IF i = id THEN s ELSE sts[i]]

\* NewTrieBuilder: the sentinel states[0] and the root states[1]
NewStates == addState(addState([i \in {} |-> 0], 0, 0), 0, 0)

\* s.trans[c] = t
SetTrans(sts, s, c, t) ==
    [sts EXCEPT ![s].trans =
        [b \in (DOMAIN sts[s].trans) \cup {c} |-> IF b = c THEN t ELSE sts[s].trans[b]]]

\* the loop of AddPattern over the bytes pattern[k ..]: follows an existing
\* transition or creates the state; yields the arena and the final state
RECURSIVE AddPatternLoop(_, _, _, _)
AddPatternLoop(sts, s, pattern, k) ==
    IF k > Len(pattern) THEN [states |-> sts, s |-> s]
    ELSE LET c == pattern[k]
         IN IF c \in DOMAIN sts[s].trans
            THEN AddPatternLoop(sts, sts[s].trans[c], pattern, k + 1)
            ELSE LET t == NumStates(sts)
                     grown == SetTrans(addState(sts, c, s), s, c, t)
                 IN AddPatternLoop(grown, t, pattern, k + 1)

\* AddPattern keeping the index a terminal state already has
AddPatternKeepsFirst(tb, pattern) ==
    LET r == AddPatternLoop(tb.states, rootState, pattern, 1)
    IN [states |-> IF r.states[r.s].dict > 0 THEN r.states
                   ELSE [r.states EXCEPT ![r.s].dict = Len(pattern),
                                         ![r.s].pattern = tb.numPatterns],
        numPatterns |-> tb.numPatterns + 1]

\* AddPattern returning at once, the counter untouched, on an empty pattern
AddPatternSkipsEmpty(tb, pattern) ==
    IF pattern = <<>> THEN tb
    ELSE LET r == AddPatternLoop(tb.states, rootState, pattern, 1)
         IN [states |-> [r.states EXCEPT ![r.s].dict = Len(pattern),
                                         ![r.s].pattern = tb.numPatterns],
             numPatterns |-> tb.numPatterns + 1]

\* AddPattern on a builder [states, numPatterns]
AddPatternTo(tb, pattern) ==
    LET r == AddPatternLoop(tb.states, rootState, pattern, 1)
    IN [states |-> [r.states EXCEPT ![r.s].dict = Len(pattern),
                                    ![r.s].pattern = tb.numPatterns],
        numPatterns |-> tb.numPatterns + 1]

-----------------------------------------------------------------------------
(* Failure links, dictionary links, compilation *)

\* the bytes of S in ascending order
RECURSIVE Ascending(_)
Ascending(S) ==
    IF S = {} THEN <<>>
    ELSE LET m == CHOOSE x \in S : \A y \in S : x <= y
         IN <<m>> \o Ascending(S \ {m})

Reverse(q) == [k \in 1 .. Len(q) |-> q[Len(q) + 1 - k]]

\* One order in which "for _, t := range s.trans" may visit the keys of the
\* map: Go leaves the order open.  desc is the set of states whose children
\* are visited in descending byte order; the others' are visited ascending.
RangeTrans(sts, s, desc) ==
    IF s \in desc THEN Reverse(Ascending(DOMAIN sts[s].trans))
    ELSE Ascending(DOMAIN sts[s].trans)

\* the states with more than one child: where the visiting order matters
Branching(sts) == {s \in DOMAIN sts : Cardinality(DOMAIN sts[s].trans) > 1}

\* FailChase with "if" for "for": one state of the chain is tried, and the
\* chain counts as run out when that state has no transition on c
FailChaseOneHop(sts, fail, c) ==
    IF fail # 0 /\ c \notin DOMAIN sts[fail].trans THEN 0 ELSE fail

\* "for fail != nil && fail.trans[t.value] == nil { fail = fail.failLink }"
RECURSIVE FailChase(_, _, _)
FailChase(sts, fail, c) ==
    IF fail # 0 /\ c \notin DOMAIN sts[fail].trans
    THEN FailChase(sts, sts[fail].failLink, c)
    ELSE fail

\* the body of computeFailLinks for the children kids[k ..] of s
RECURSIVE FailLinksChildren(_, _, _, _, _)
FailLinksChildren(sts, queue, s, kids, k) ==
    IF k > Len(kids) THEN [states |-> sts, queue |-> queue]
    ELSE LET t == sts[s].trans[kids[k]]
             fail == FailChase(sts, sts[s].failLink, sts[t].value)
             link == IF fail # 0 THEN sts[fail].trans[sts[t].value] ELSE rootState
         IN FailLinksChildren([sts EXCEPT ![t].failLink = link], Append(queue, t),
                              s, kids, k + 1)

\* the breadth-first loop of computeFailLinks
RECURSIVE FailLinksLoop(_, _, _)
FailLinksLoop(sts, queue, desc) ==
    IF queue = <<>> THEN sts
    ELSE LET s == Head(queue)
             r == FailLinksChildren(sts, Tail(queue), s, RangeTrans(sts, s, desc), 1)
         IN FailLinksLoop(r.states, r.queue, desc)

computeFailLinks(sts, desc) == FailLinksLoop(sts, <<rootState>>, desc)

\* DictChase begun one hop late, at s.failLink.failLink
DictChaseSkipsFirst(sts, fail) ==
    IF fail = 0 THEN 0
    ELSE LET RECURSIVE Chase(_)
             Chase(f) == IF f = 0 THEN 0
                         ELSE IF sts[f].dict > 0 THEN f
                         ELSE Chase(sts[f].failLink)
         IN Chase(sts[fail].failLink)

\* DictChase without the break: the last state of the chain with dict > 0
DictChaseLast(sts, fail) ==
    LET RECURSIVE Chase(_, _)
        Chase(f, found) == IF f = 0 THEN found
                           ELSE Chase(sts[f].failLink, IF sts[f].dict > 0 THEN f ELSE found)
    IN Chase(fail, 0)

\* "for fail := s.failLink; fail != nil; fail = fail.failLink": the first
\* state of the chain with dict > 0, or 0 (the link stays nil)
RECURSIVE DictChase(_, _)
DictChase(sts, fail) ==
    IF fail = 0 THEN 0
    ELSE IF sts[fail].dict > 0 THEN fail
    ELSE DictChase(sts, sts[fail].failLink)

computeDictLinks(sts) ==
    [i \in DOMAIN sts |->
        IF i = rootState THEN sts[i]
        ELSE LET d == DictChase(sts, sts[i].failLink)
             IN IF d # 0 THEN [sts[i] EXCEPT !.dictLink = d] ELSE sts[i]]

\* FailTransitionFrom yielding the nil id, not the root, when the chain runs out
FailTransitionFromNil(sts, t, c) ==
    LET RECURSIVE From(_)
        From(u) == IF u = 0 THEN nilState
                   ELSE IF c \in DOMAIN sts[u].trans THEN sts[u].trans[c]
                   ELSE From(sts[u].failLink)
    IN From(t)

\* computeFailTransition: the first state of s, s.failLink, ... that has a
\* transition on c gives the target; the root when the chain runs out
RECURSIVE FailTransitionFrom(_, _, _)
FailTransitionFrom(sts, t, c) ==
    IF t = 0 THEN rootState
    ELSE IF c \in DOMAIN sts[t].trans THEN sts[t].trans[c]
    ELSE FailTransitionFrom(sts, sts[t].failLink, c)

\* computeFailTransition looking at the state's own transitions only
computeFailTransitionDirect(sts, s, c) ==
    IF c \in DOMAIN sts[s].trans THEN sts[s].trans[c] ELSE rootState

\* The chain starts at the state object s itself, which is never nil, so
\* the sentinel states[0] (no transitions, nil failLink) yields the root.
computeFailTransition(sts, s, c) ==
    IF c \in DOMAIN sts[s].trans THEN sts[s].trans[c]
    ELSE FailTransitionFrom(sts, sts[s].failLink, c)

\* Build: the two link passes, then the flattened arrays.  trans and
\* failLink are dropped (set to nil) before the Trie is returned.
BuildTrie(sts0, desc) ==
    LET sts == computeDictLinks(computeFailLinks(sts0, desc))
    IN [built |-> TRUE,
        states |-> sts,
        trie |-> [dict |-> [i \in DOMAIN sts |-> sts[i].dict],
                  pattern |-> [i \in DOMAIN sts |-> sts[i].pattern],
                  dictLink |-> [i \in DOMAIN sts |-> sts[i].dictLink],
                  failTrans |-> [i \in DOMAIN sts |->
                                    [c \in Alphabet |-> computeFailTransition(sts, i, c)]]]]

-----------------------------------------------------------------------------
(* Trie: Walk, Match, MatchFirst *)

\* The callback of a walk is modelled by the number of the invocation at
\* which it returns false (0: it returns true every time); calls holds the
\* invocations made so far, the last one being the one answered.
fn(calls, stopAt) == Len(calls) # stopAt

\* WalkLinks going on along the chain after the callback returned false
WalkLinksIgnoresFalse(tr, u, i, calls, stopAt) ==
    LET RECURSIVE Links(_, _)
        Links(v, cs) ==
            IF v = nilState THEN [calls |-> cs, stopped |-> FALSE]
            ELSE Links(tr.dictLink[v],
                       Append(cs, [end |-> i, n |-> tr.dict[v], pattern |-> tr.pattern[v]]))
    IN Links(u, calls)

\* "for u := dictLink[s]; u != nilState; u = dictLink[u]": the dictionary
\* link traversal at input position i
RECURSIVE WalkLinks(_, _, _, _, _)
WalkLinks(tr, u, i, calls, stopAt) ==
    IF u = nilState THEN [calls |-> calls, stopped |-> FALSE]
    ELSE LET made == Append(calls, [end |-> i, n |-> tr.dict[u], pattern |-> tr.pattern[u]])
         IN IF ~fn(made, stopAt) THEN [calls |-> made, stopped |-> TRUE]
            ELSE WalkLinks(tr, tr.dictLink[u], i, made, stopAt)

\* WalkReport following the dictionary links before the primary match check
WalkReportLinksFirst(tr, s, i, calls, stopAt) ==
    LET links == WalkLinks(tr, tr.dictLink[s], i, calls, stopAt)
        made == Append(links.calls, [end |-> i, n |-> tr.dict[s], pattern |-> tr.pattern[s]])
    IN IF links.stopped \/ tr.dict[s] = 0 THEN links
       ELSE [calls |-> made, stopped |-> ~fn(made, stopAt)]

\* the body of Walk's loop once s has been advanced at position i: the
\* primary match check, then the dictionary link traversal
WalkReport(tr, s, i, calls, stopAt) ==
    IF tr.dict[s] # 0 \/ tr.dictLink[s] # nilState
    THEN LET made == Append(calls, [end |-> i, n |-> tr.dict[s], pattern |-> tr.pattern[s]])
         IN IF tr.dict[s] # 0
            THEN IF ~fn(made, stopAt) THEN [calls |-> made, stopped |-> TRUE]
                 ELSE WalkLinks(tr, tr.dictLink[s], i, made, stopAt)
            ELSE WalkLinks(tr, tr.dictLink[s], i, calls, stopAt)
    ELSE [calls |-> calls, stopped |-> FALSE]

\* Walk's loop from position i in state s.  Yields the callback invocations
\* in order, the states entered (one per byte consumed) and whether the
\* callback ended the walk.
RECURSIVE WalkLoop(_, _, _, _, _, _, _)
WalkLoop(tr, input, i, s, calls, path, stopAt) ==
    IF i >= Len(input) THEN [calls |-> calls, path |-> path, stopped |-> FALSE]
    ELSE LET next == tr.failTrans[s][input[i + 1]]
             r == WalkReport(tr, next, i, calls, stopAt)
         IN IF r.stopped THEN [calls |-> r.calls, path |-> Append(path, next), stopped |-> TRUE]
            ELSE WalkLoop(tr, input, i + 1, next, r.calls, Append(path, next), stopAt)

Walk(tr, input, stopAt) == WalkLoop(tr, input, 0, rootState, <<>>, <<>>, stopAt)

\* input[pos : pos+n]
Slice(input, pos, n) == [k \in 1 .. n |-> input[pos + k]]

\* MatchOf with the start position one short: pos = end - n
MatchOfOneShort(input, call) ==
    LET pos == call.end - call.n
    IN [pos |-> pos, pattern |-> call.pattern,
        match |-> [k \in 1 .. call.n |-> IF pos + k >= 1 THEN input[pos + k] ELSE 0]]

\* the Match a callback makes of one invocation: pos = end - n + 1
MatchOf(input, call) ==
    LET pos == call.end - call.n + 1
    IN [pos |-> pos, pattern |-> call.pattern, match |-> Slice(input, pos, call.n)]

\* Match: the callback appends a Match and returns true
Match(tr, input) ==
    LET calls == Walk(tr, input, 0).calls
    IN [k \in 1 .. Len(calls) |-> MatchOf(input, calls[k])]

\* the nil *Match
NoMatch == [pos |-> -1]

\* MatchFirst of trie.go: the callback stores &Match{pos: pos, match: ...},
\* which leaves the pattern field at its zero value, and returns false
MatchFirst(tr, input) ==
    LET calls == Walk(tr, input, 1).calls
    IN IF calls = <<>> THEN NoMatch
       ELSE [MatchOf(input, calls[1]) EXCEPT !.pattern = 0]

-----------------------------------------------------------------------------
(* Persistence codec: Encode, Decode *)

\* bytes of a uint64 / int64 as binary.Write and binary.Read lay them out
WordSize == 8

\* binary.LittleEndian: the n low bytes of v, lowest first
RECURSIVE LittleEndian(_, _)
LittleEndian(v, n) ==
    IF n = 0 THEN <<>> ELSE <<v % 256>> \o LittleEndian(v \div 256, n - 1)

\* the value of little-endian bytes (the model's values stay below 2^31)
RECURSIVE FromLittleEndian(_)
FromLittleEndian(bs) ==
    IF bs = <<>> THEN 0 ELSE Head(bs) + 256 * FromLittleEndian(Tail(bs))

\* binary.Write of a slice: its elements in order, each as a word
RECURSIVE WriteWords(_)
WriteWords(vals) ==
    IF vals = <<>> THEN <<>>
    ELSE LittleEndian(Head(vals), WordSize) \o WriteWords(Tail(vals))

\* a slice indexed from 0 as the sequence of its elements
Elems(arr) == [k \in 1 .. Cardinality(DOMAIN arr) |-> arr[k - 1]]

\* the columns of a failTrans row in index order (256 in the code)
Columns == Ascending(Alphabet)
RowWidth == Len(Columns)

\* WriteRows laying out each row from its last column to its first
WriteRowsBackwards(rows) ==
    LET RECURSIVE Rows(_)
        Rows(rs) ==
            IF rs = <<>> THEN <<>>
            ELSE WriteWords([k \in 1 .. RowWidth |-> Head(rs)[Columns[RowWidth + 1 - k]]])
                 \o Rows(Tail(rs))
    IN Rows(rows)

\* "for _, arr := range trie.failTrans { binary.Write(w, ..., arr[:]) }"
RECURSIVE WriteRows(_)
WriteRows(rows) ==
    IF rows = <<>> THEN <<>>
    ELSE WriteWords([k \in 1 .. RowWidth |-> Head(rows)[Columns[k]]]) \o WriteRows(Tail(rows))

\* The gzip container, with the deflate stream as one stored block: the
\* magic bytes, the block's length, the data as they are, and the trailer
\* (the data's length; the checksum is left out, Decode never reaching it).
GzipMagic == <<31, 139>>
GzipWrite(data) ==
    GzipMagic \o LittleEndian(Len(data), 4) \o data \o LittleEndian(Len(data), 4)

\* what encoder.encode writes before compression: the four lengths, then
\* dict, the rows of failTrans, dictLink and pattern
EncodePayload(tr) ==
    LittleEndian(Cardinality(DOMAIN tr.dict), WordSize)
    \o LittleEndian(Cardinality(DOMAIN tr.failTrans), WordSize)
    \o LittleEndian(Cardinality(DOMAIN tr.dictLink), WordSize)
    \o LittleEndian(Cardinality(DOMAIN tr.pattern), WordSize)
    \o WriteWords(Elems(tr.dict))
    \o WriteRows(Elems(tr.failTrans))
    \o WriteWords(Elems(tr.dictLink))
    \o WriteWords(Elems(tr.pattern))

\* Encode
Encode(tr) == GzipWrite(EncodePayload(tr))

\* gzip.NewReader: fails on a short or wrong header; otherwise the reader
\* delivers the bytes of the block that the stream holds, and every read
\* past them fails (an unexpected end of the stream)
GzipNewReader(bytes) ==
    IF Len(bytes) < Len(GzipMagic) \/ SubSeq(bytes, 1, Len(GzipMagic)) # GzipMagic
    THEN [err |-> TRUE]
    ELSE LET rest == SubSeq(bytes, Len(GzipMagic) + 1, Len(bytes))
         IN IF Len(rest) < 4 THEN [err |-> FALSE, data |-> <<>>]
            ELSE LET len == FromLittleEndian(SubSeq(rest, 1, 4))
                     have == IF Len(rest) - 4 < len THEN Len(rest) - 4 ELSE len
                 IN [err |-> FALSE, data |-> SubSeq(rest, 5, 4 + have)]

\* the bytes a reader of the stream is given in all
Payload(bytes) ==
    IF GzipNewReader(bytes).err THEN <<>> ELSE GzipNewReader(bytes).data

\* binary.Read of n words from the bytes r still to be read: io.ReadFull
\* fails when fewer than n words are left (a read of no word succeeds)
RECURSIVE ReadWords(_, _)
ReadWords(r, n) ==
    IF n = 0 THEN [err |-> FALSE, vals |-> <<>>, rest |-> r]
    ELSE IF Len(r) < n * WordSize THEN [err |-> TRUE]
    ELSE LET more == ReadWords(SubSeq(r, WordSize + 1, Len(r)), n - 1)
         IN [err |-> FALSE,
             vals |-> <<FromLittleEndian(SubSeq(r, 1, WordSize))>> \o more.vals,
             rest |-> more.rest]

\* the error result of Decode: a nil *Trie and the error
DecodeError == [done |-> TRUE, err |-> TRUE, trie |-> NoTrie]

\* a slice of the given elements, indexed from 0
Slice0(vals) == [i \in 0 .. Len(vals) - 1 |-> vals[i + 1]]

\* decoder.decode: the four lengths, then each section sized by its own
\* length; the first failing read ends it with the error
Decode(bytes) ==
    LET z == GzipNewReader(bytes)
    IN IF z.err THEN DecodeError ELSE
    LET h == ReadWords(z.data, 4)
    IN IF h.err THEN DecodeError ELSE
    LET dictLen == h.vals[1]
        failTransLen == h.vals[2]
        dictLinkLen == h.vals[3]
        patternLen == h.vals[4]
        dict == ReadWords(h.rest, dictLen)
    IN IF dict.err THEN DecodeError ELSE
    LET flat == ReadWords(dict.rest, failTransLen * RowWidth)
    IN IF flat.err THEN DecodeError ELSE
    LET dictLink == ReadWords(flat.rest, dictLinkLen)
    IN IF dictLink.err THEN DecodeError ELSE
    LET pattern == ReadWords(dictLink.rest, patternLen)
    IN IF pattern.err THEN DecodeError ELSE
       [done |-> TRUE, err |-> FALSE,
        trie |-> [built |-> TRUE,
                  dict |-> Slice0(dict.vals),
                  failTrans |-> [i \in 0 .. failTransLen - 1 |->
                                    [c \in Alphabet |->
                                        flat.vals[i * RowWidth
                                                  + (CHOOSE k \in 1 .. RowWidth : Columns[k] = c)]]],
                  dictLink |-> Slice0(dictLink.vals),
                  pattern |-> Slice0(pattern.vals)]]

-----------------------------------------------------------------------------
(* Pooled result buffers: Match, MatchFirst and ReleaseMatches over         *)
(* matchPool and matchStructPool                                            *)

\* scans running concurrently on one Trie
NumScans == 2
Scans == 1 .. NumScans

\* slices and structs Build puts into the pools (64 of each in the code)
PoolPrefill == 1

\* new(Match)
ZeroMatch == [pos |-> 0, pattern |-> 0, match |-> <<>>]

NoSlice == [arr |-> 0, len |-> 0]
IdleScan == [pc |-> "idle", op |-> "none", input |-> <<>>, k |-> 0, hdr |-> NoSlice, m |-> 0]

\* a Get that leaves the item in the pool, for the next Get to hand out again
TakenStays(pool, x) == pool

\* sync.Pool.Get hands the item to the caller alone: it leaves the pool
Taken(pool, x) == pool \ {x}

\* matches = matches[:0]
ResetSlice(hdr) == [hdr EXCEPT !.len = 0]

\* matches = append(matches, m), below the capacity of the backing array
\* (16; no scan of the model reports that many matches)
AppendSlice(arrs, hdr, m) ==
    [arrs EXCEPT ![hdr.arr] =
        IF hdr.len < Len(@) THEN [@ EXCEPT ![hdr.len + 1] = m]
        ELSE Append(SubSeq(@, 1, hdr.len), m)]

\* The callback invocations the walk of a scan makes: Walk reads only the
\* arrays of the Trie, which no scan writes, and the callback of Match
\* returns true every time, that of MatchFirst false the first time.
CallsOf(pr) == Walk(trie, pr.input, IF pr.op = "MatchFirst" THEN 1 ELSE 0).calls

-----------------------------------------------------------------------------
(* The builder, Build and the scans as a state machine *)

\* most callback invocations after which a Walk callback is made to return false
MaxStop == 2

Init ==
    /\ states = NewStates
    /\ numPatterns = 0
    /\ added = <<>>
    /\ trie = NoTrie
    /\ scan = NoScan
    /\ stream = NoStream
    /\ damage = "none"
    /\ decoded = NoDecode
    /\ heap = <<>>
    /\ arrays = <<>>
    /\ matchPool = {}
    /\ matchStructPool = {}
    /\ procs = [p \in Scans |-> IdleScan]

\* tb.AddPattern(pattern), before Build, as one of at most most calls
AddPatternWithin(pattern, most) ==
    /\ ~trie.built
    /\ Len(added) < most
    /\ LET tb == AddPatternTo([states |-> states, numPatterns |-> numPatterns], pattern)
       IN /\ states' = tb.states
          /\ numPatterns' = tb.numPatterns
    /\ added' = Append(added, pattern)
    /\ UNCHANGED <<trie, scan, stream, damage, decoded, poolVars>>

AddPattern(pattern) == AddPatternWithin(pattern, MaxPatterns)

\* tb.Build(), with one of the orders in which the maps may be ranged over
Build ==
    /\ ~trie.built
    /\ \E desc \in SUBSET Branching(states) :
          LET b == BuildTrie(states, desc)
          IN /\ states' = b.states
             /\ trie' = [built |-> TRUE] @@ b.trie
    /\ heap' = [a \in 1 .. PoolPrefill |-> ZeroMatch]
    /\ arrays' = [a \in 1 .. PoolPrefill |-> <<>>]
    /\ matchPool' = {[arr |-> a, len |-> 0] : a \in 1 .. PoolPrefill}
    /\ matchStructPool' = 1 .. PoolPrefill
    /\ UNCHANGED <<numPatterns, added, scan, stream, damage, decoded, procs>>

\* A scan reads the Trie and writes nothing but its own result, so a
\* behaviour records one scan: scan holds what it was given and returned.

\* trie.Walk(input, fn) with a callback that returns false at its stopAt-th
\* invocation
DoWalk(input, stopAt) ==
    /\ trie.built
    /\ scan = NoScan
    /\ scan' = [op |-> "Walk", input |-> input, stopAt |-> stopAt] @@ Walk(trie, input, stopAt)
    /\ UNCHANGED <<states, numPatterns, added, trie, stream, damage, decoded, poolVars>>

\* trie.Match(input)
DoMatch(input) ==
    /\ trie.built
    /\ scan = NoScan
    /\ scan' = [op |-> "Match", input |-> input, matches |-> Match(trie, input)]
    /\ UNCHANGED <<states, numPatterns, added, trie, stream, damage, decoded, poolVars>>

\* trie.MatchFirst(input)
DoMatchFirst(input) ==
    /\ trie.built
    /\ scan = NoScan
    /\ scan' = [op |-> "MatchFirst", input |-> input, match |-> MatchFirst(trie, input)]
    /\ UNCHANGED <<states, numPatterns, added, trie, stream, damage, decoded, poolVars>>

Next ==
    \/ \E pattern \in Patterns : AddPattern(pattern)
    \/ Build
    \/ \E input \in Inputs, stopAt \in 0 .. MaxStop : DoWalk(input, stopAt)
    \/ \E input \in Inputs : DoMatch(input)
    \/ \E input \in Inputs : DoMatchFirst(input)

Spec == Init /\ [][Next]_vars

-----------------------------------------------------------------------------
(* Claims about AddPattern, Build and the scans, checked under Spec *)

\* the patterns are non-empty and pairwise distinct
DistinctNonEmpty(pats) ==
    /\ \A j \in 1 .. Len(pats) : pats[j] # <<>>
    /\ \A j, k \in 1 .. Len(pats) : j # k => pats[j] # pats[k]

\* the occurrences <<start, patternIndex>> of the patterns in T
Occurrences(pats, T) ==
    {<<start, k>> \in (0 .. Len(T)) \X (0 .. Len(pats) - 1) :
        /\ start + Len(pats[k + 1]) <= Len(T)
        /\ Slice(T, start, Len(pats[k + 1])) = pats[k + 1]}

Reported(matches) == {<<matches[k].pos, matches[k].pattern>> : k \in 1 .. Len(matches)}

\* C1: for non-empty, pairwise distinct patterns, Match reports exactly the
\* occurrences of the patterns in the input: every occurrence (start,
\* pattern index) is reported, nothing else is, and none is reported twice.
C1_MatchReportsExactlyOccurrences ==
    (scan.op = "Match" /\ DistinctNonEmpty(added)) =>
        /\ Reported(scan.matches) = Occurrences(added, scan.input)
        /\ Len(scan.matches) = Cardinality(Occurrences(added, scan.input))
        /\ \A k \in 1 .. Len(scan.matches) :
              scan.matches[k].match = added[scan.matches[k].pattern + 1]

\* a Match scan that reported two occurrences ending at the same position
\* (one nested in the other) and two that overlap without being nested
C1_Witness ==
    /\ scan.op = "Match"
    /\ DistinctNonEmpty(added)
    /\ \E j, k \in 1 .. Len(scan.matches) :
          /\ scan.matches[j].pos < scan.matches[k].pos
          /\ scan.matches[j].pos + Len(scan.matches[j].match)
                = scan.matches[k].pos + Len(scan.matches[k].match)
    /\ \E j, k \in 1 .. Len(scan.matches) :
          /\ scan.matches[j].pos < scan.matches[k].pos
          /\ scan.matches[k].pos < scan.matches[j].pos + Len(scan.matches[j].match)
          /\ scan.matches[j].pos + Len(scan.matches[j].match)
                < scan.matches[k].pos + Len(scan.matches[k].match)

\* C2: MatchFirst returns the start position and the pattern index of the
\* first element of Match on the same input, and nil exactly when Match
\* returns nothing.
C2_MatchFirstIsFirstOfMatch ==
    scan.op = "MatchFirst" =>
        LET all == Match(trie, scan.input)
        IN IF all = <<>> THEN scan.match = NoMatch
           ELSE /\ scan.match # NoMatch
                /\ scan.match.pos = all[1].pos
                /\ scan.match.pattern = all[1].pattern

\* C3: the callback invocations of a walk come in ascending end position;
\* at one end position the match of the current state comes first and the
\* lengths then decrease strictly.
C3_WalkOrder ==
    scan.op = "Walk" =>
        /\ \A k \in 1 .. Len(scan.calls) - 1 :
              \/ scan.calls[k].end < scan.calls[k + 1].end
              \/ /\ scan.calls[k].end = scan.calls[k + 1].end
                 /\ scan.calls[k].n > scan.calls[k + 1].n
        /\ \A k \in 1 .. Len(scan.calls) :
              LET s == scan.path[scan.calls[k].end + 1]
                  first == k = 1 \/ scan.calls[k - 1].end # scan.calls[k].end
              IN (first /\ trie.dict[s] # 0) =>
                    /\ scan.calls[k].n = trie.dict[s]
                    /\ scan.calls[k].pattern = trie.pattern[s]

\* a walk that reported the current state's match and then one through a
\* dictionary link, at the same end position
C3_Witness ==
    /\ scan.op = "Walk"
    /\ \E k \in 1 .. Len(scan.calls) - 1 :
          /\ scan.calls[k].end = scan.calls[k + 1].end
          /\ scan.calls[k].n = trie.dict[scan.path[scan.calls[k].end + 1]]

\* C4: when the callback returns false the walk ends at once: the
\* invocations made are those of the unstopped walk up to and including the
\* one answered false, and the bytes consumed are those up to the end
\* position of that invocation.
C4_FalseStopsWalk ==
    (scan.op = "Walk" /\ scan.stopAt > 0) =>
        LET full == Walk(trie, scan.input, 0)
        IN IF Len(full.calls) < scan.stopAt
           THEN /\ ~scan.stopped
                /\ scan.calls = full.calls
                /\ scan.path = full.path
           ELSE /\ scan.stopped
                /\ scan.calls = SubSeq(full.calls, 1, scan.stopAt)
                /\ scan.path = SubSeq(full.path, 1, full.calls[scan.stopAt].end + 1)

\* a walk ended by false on a dictionary-link match, with input left
C4_Witness ==
    /\ scan.op = "Walk"
    /\ scan.stopped
    /\ scan.stopAt > 1
    /\ scan.calls[scan.stopAt - 1].end = scan.calls[scan.stopAt].end
    /\ Len(scan.path) < Len(scan.input)
    /\ Len(Walk(trie, scan.input, 0).calls) > scan.stopAt

\* the state reached from s along the bytes p[k ..], all of whose
\* transitions exist once p was added
RECURSIVE Terminal(_, _, _, _)
Terminal(sts, s, p, k) ==
    IF k > Len(p) THEN s ELSE Terminal(sts, sts[s].trans[p[k]], p, k + 1)

\* the number of AddPattern calls made before the last call that added p
LastIndex(pats, p) ==
    (CHOOSE j \in 1 .. Len(pats) :
        pats[j] = p /\ \A k \in j + 1 .. Len(pats) : pats[k] # p) - 1

\* C8: numPatterns counts the AddPattern calls, the terminal state of every
\* pattern added holds the pattern's length and the index of the LAST call
\* that added it, and a scan reports a pattern under that index only.
C8_PatternIndexIsLastAdd ==
    /\ numPatterns = Len(added)
    /\ \A j \in 1 .. Len(added) :
          LET t == Terminal(states, rootState, added[j], 1)
          IN /\ states[t].dict = Len(added[j])
             /\ states[t].pattern = LastIndex(added, added[j])
    /\ scan.op = "Match" =>
          \A k \in 1 .. Len(scan.matches) :
             scan.matches[k].pattern = LastIndex(added, scan.matches[k].match)

\* a pattern added twice and reported by a scan, under the second index
C8_Witness ==
    /\ scan.op = "Match"
    /\ \E j, k \in 1 .. Len(added) : j < k /\ added[j] = added[k] /\ added[j] # <<>>
    /\ \E k \in 1 .. Len(scan.matches) :
          /\ scan.matches[k].pattern > 0
          /\ added[1] = scan.matches[k].match

\* The example of C9: P = {"a", "ab"} added in that order, T = "xab".
ExampleP == <<<<97>>, <<97, 98>>>>
ExampleT == <<120, 97, 98>>

\* C9 as stated: MatchFirst returns the match for "ab" at start 1.
C9_AsStated ==
    (added = ExampleP /\ scan.op = "MatchFirst" /\ scan.input = ExampleT) =>
        /\ scan.match # NoMatch
        /\ scan.match.pos = 1
        /\ scan.match.match = <<97, 98>>

\* C9, amended: on P = {"a", "ab"} and T = "xab" MatchFirst returns the match
\* for "a" at start 1, reported at end position 1; the walk reports "ab"
\* (start 1, end position 2) after it, as the direct match of its state, and
\* nothing through a dictionary link, the state of "ab" having none.
C9_ExampleFirstIsA ==
    (added = ExampleP /\ scan.op # "none" /\ scan.input = ExampleT) =>
        /\ scan.op = "MatchFirst" =>
              /\ scan.match # NoMatch
              /\ scan.match.pos = 1
              /\ scan.match.match = <<97>>
        /\ (scan.op = "Walk" /\ scan.stopAt = 0) =>
              /\ scan.calls = <<[end |-> 1, n |-> 1, pattern |-> 0],
                                [end |-> 2, n |-> 2, pattern |-> 1]>>
              /\ trie.dictLink[scan.path[3]] = nilState

C9_Witness ==
    /\ added = ExampleP
    /\ scan.op = "MatchFirst"
    /\ scan.input = ExampleT
    /\ scan.match # NoMatch

\* C10: the compiled table is total and closed over the real states: every
\* entry of failTrans, for every state id including the sentinel's, is an
\* id in 1 .. numStates-1; so every state a walk enters is one.
C10_TableClosed ==
    trie.built =>
        LET real == 1 .. NumStates(states) - 1
        IN /\ DOMAIN trie.failTrans = 0 .. NumStates(states) - 1
           /\ \A s \in DOMAIN trie.failTrans :
                 \A c \in Alphabet : trie.failTrans[s][c] \in real
           /\ scan.op = "Walk" => \A k \in 1 .. Len(scan.path) : scan.path[k] \in real

\* a walk over a whole input that fell back to the root on a byte for which
\* neither the state left nor any state of its failure chain has a transition
C10_Witness ==
    /\ scan.op = "Walk"
    /\ Len(scan.path) = MaxInputLen
    /\ NumStates(states) > 3
    /\ \E k \in 2 .. Len(scan.path) :
          scan.path[k] = rootState /\ scan.path[k - 1] # rootState

-----------------------------------------------------------------------------
(* Encode and Decode as a state machine *)

\* Encode(w, trie): stream is what w received
DoEncode ==
    /\ trie.built
    /\ stream = NoStream
    /\ stream' = Encode(trie)
    /\ UNCHANGED <<states, numPatterns, added, trie, scan, damage, decoded, poolVars>>

\* Decode(r), r delivering stream
DoDecode ==
    /\ stream # NoStream
    /\ ~decoded.done
    /\ decoded' = Decode(stream)
    /\ UNCHANGED <<states, numPatterns, added, trie, scan, stream, damage, poolVars>>

SpecCodecNext ==
    \/ \E pattern \in Patterns : AddPattern(pattern)
    \/ Build
    \/ DoEncode
    \/ DoDecode

\* builder, Build, Encode and Decode of what Encode wrote
SpecCodec == Init /\ [][SpecCodecNext]_vars

\* The streams a reader may meet in place of the one Encode wrote: each of
\* the three actions below damages an intact stream once, before Decode.
Intact == stream # NoStream /\ ~decoded.done /\ damage = "none"

\* the stream cut after its first k bytes
Truncate(k) ==
    /\ Intact
    /\ k < Len(stream)
    /\ stream' = SubSeq(stream, 1, k)
    /\ damage' = "truncated"
    /\ UNCHANGED <<states, numPatterns, added, trie, scan, decoded, poolVars>>

\* the stream with the j-th of its four header counts replaced by v
TamperCount(j, v) ==
    /\ Intact
    /\ LET data == Payload(stream)
           at == (j - 1) * WordSize
       IN /\ FromLittleEndian(SubSeq(data, at + 1, at + WordSize)) # v
          /\ stream' = GzipWrite(SubSeq(data, 1, at) \o LittleEndian(v, WordSize)
                                 \o SubSeq(data, at + WordSize + 1, Len(data)))
    /\ damage' = "count"
    /\ UNCHANGED <<states, numPatterns, added, trie, scan, decoded, poolVars>>

\* the stream with one more word of body data than its header declares
AppendWord ==
    /\ Intact
    /\ stream' = GzipWrite(Payload(stream) \o LittleEndian(0, WordSize))
    /\ damage' = "appended"
    /\ UNCHANGED <<states, numPatterns, added, trie, scan, decoded, poolVars>>

SpecDecodeNext ==
    \/ \E pattern \in Patterns : AddPattern(pattern)
    \/ Build
    \/ DoEncode
    \/ \E k \in 0 .. Len(stream) : Truncate(k)
    \/ \E j \in 1 .. 4, v \in 0 .. NumStates(states) + 1 : TamperCount(j, v)
    \/ AppendWord
    \/ DoDecode

\* builder, Build, Encode, damage to the stream, Decode
SpecDecode == Init /\ [][SpecDecodeNext]_vars

-----------------------------------------------------------------------------
(* Claims about the codec *)

\* C5: Decode of what Encode wrote succeeds, and the decoded automaton's
\* Match result (positions, pattern indexes, matched bytes, in order)
\* equals the original's on every input; the stream holds the four lengths
\* and dict, failTrans, dictLink and pattern only.
C5_RoundTrip ==
    (decoded.done /\ damage = "none") =>
        /\ ~decoded.err
        /\ stream = Encode(trie)
        /\ \A input \in Inputs : Match(decoded.trie, input) = Match(trie, input)
        /\ Len(EncodePayload(trie))
              = WordSize * (4 + NumStates(states) * (3 + RowWidth))

\* a decoded automaton of at least four states with a dictionary link, on
\* which some input has a match
C5_Witness ==
    /\ decoded.done
    /\ ~decoded.err
    /\ NumStates(states) > 3
    /\ \E s \in DOMAIN decoded.trie.dictLink : decoded.trie.dictLink[s] # nilState
    /\ \E input \in Inputs : Len(Match(decoded.trie, input)) > 1

\* the stream is structurally inconsistent: cut inside its header or body,
\* or its four counts differ from one another or from the body data
Inconsistent(bytes) ==
    \/ GzipNewReader(bytes).err
    \/ Len(Payload(bytes)) < 4 * WordSize
    \/ LET h == ReadWords(Payload(bytes), 4).vals
       IN \/ \E j \in 2 .. 4 : h[j] # h[1]
          \/ Len(Payload(bytes)) # WordSize * (4 + h[1] * (3 + RowWidth))

\* C6: Decode of a structurally inconsistent stream fails and returns no Trie.
C6_DecodeRejectsInconsistent ==
    (decoded.done /\ Inconsistent(stream)) =>
        /\ decoded.err
        /\ decoded.trie = NoTrie

\* Decode of a stream cut anywhere before the end of its body fails and
\* returns no Trie (the part of C6 that the code keeps).
DecodeRejectsTruncated ==
    (decoded.done /\ damage = "truncated"
       /\ Len(stream) < Len(GzipMagic) + 4 + WordSize * (4 + NumStates(states) * (3 + RowWidth))) =>
        /\ decoded.err
        /\ decoded.trie = NoTrie


-----------------------------------------------------------------------------
(* Concurrent pooled scans as a state machine *)

\* the pattern lists of the automata the concurrent scans run on
PooledPatternLists == {<<<<97>>, <<97, 98>>>>, <<<<97, 98>>, <<98>>>>}
\* longest input of a concurrent scan
PooledInputLen == 2
PooledInputs == SeqsUpTo(PatternBytes, PooledInputLen)

RECURSIVE AddPatterns(_, _, _)
AddPatterns(tb, patterns, k) ==
    IF k > Len(patterns) THEN tb
    ELSE AddPatterns(AddPatternTo(tb, patterns[k]), patterns, k + 1)

\* a Trie just built from one of the pattern lists, its pools filled, no
\* scan begun
PooledInit ==
    /\ added \in PooledPatternLists
    /\ LET tb == AddPatterns([states |-> NewStates, numPatterns |-> 0], added, 1)
           b == BuildTrie(tb.states, {})
       IN /\ states = b.states
          /\ numPatterns = tb.numPatterns
          /\ trie = [built |-> TRUE] @@ b.trie
    /\ scan = NoScan
    /\ stream = NoStream
    /\ damage = "none"
    /\ decoded = NoDecode
    /\ heap = [a \in 1 .. PoolPrefill |-> ZeroMatch]
    /\ arrays = [a \in 1 .. PoolPrefill |-> <<>>]
    /\ matchPool = {[arr |-> a, len |-> 0] : a \in 1 .. PoolPrefill}
    /\ matchStructPool = 1 .. PoolPrefill
    /\ procs = [p \in Scans |-> IdleScan]

trieVars == <<states, numPatterns, added, trie, scan, stream, damage, decoded>>

\* a goroutine calls trie.Match(input) or trie.MatchFirst(input)
StartScan(p, op, input) ==
    /\ procs[p].pc = "idle"
    /\ procs' = [procs EXCEPT ![p] = [IdleScan EXCEPT !.pc = "get", !.op = op, !.input = input]]
    /\ UNCHANGED <<trieVars, heap, arrays, matchPool, matchStructPool>>

\* matches := tr.matchPool.Get().([]*Match); matches = matches[:0].  Get
\* yields a slice of the pool, or a new one (New) when it finds none.
GetSlice(p) ==
    /\ procs[p].pc = "get"
    /\ \/ \E h \in matchPool :
             /\ matchPool' = Taken(matchPool, h)
             /\ procs' = [procs EXCEPT ![p].pc = "walk", ![p].k = 1, ![p].hdr = ResetSlice(h)]
             /\ UNCHANGED arrays
       \/ /\ arrays' = Append(arrays, <<>>)
          /\ procs' = [procs EXCEPT ![p].pc = "walk", ![p].k = 1,
                                    ![p].hdr = [arr |-> Len(arrays) + 1, len |-> 0]]
          /\ UNCHANGED matchPool
    /\ UNCHANGED <<trieVars, heap, matchStructPool>>

\* the callback's m := tr.matchStructPool.Get().(*Match), at the k-th
\* invocation the walk makes
AcquireStruct(p) ==
    /\ procs[p].pc = "walk"
    /\ procs[p].k <= Len(CallsOf(procs[p]))
    /\ \/ \E m \in matchStructPool :
             /\ matchStructPool' = Taken(matchStructPool, m)
             /\ procs' = [procs EXCEPT ![p].pc = "fill", ![p].m = m]
             /\ UNCHANGED heap
       \/ /\ heap' = Append(heap, ZeroMatch)
          /\ procs' = [procs EXCEPT ![p].pc = "fill", ![p].m = Len(heap) + 1]
          /\ UNCHANGED matchStructPool
    /\ UNCHANGED <<trieVars, arrays, matchPool>>

\* the rest of the callback: m.pos, m.pattern, m.match are written and m is
\* appended to matches
FillStruct(p) ==
    /\ procs[p].pc = "fill"
    /\ heap' = [heap EXCEPT ![procs[p].m] = MatchOf(procs[p].input, CallsOf(procs[p])[procs[p].k])]
    /\ arrays' = AppendSlice(arrays, procs[p].hdr, procs[p].m)
    /\ procs' = [procs EXCEPT ![p].pc = "walk", ![p].k = @ + 1, ![p].m = 0,
                              ![p].hdr = [@ EXCEPT !.len = @ + 1]]
    /\ UNCHANGED <<trieVars, matchPool, matchStructPool>>

\* the walk is over: Match returns matches, MatchFirst matches[0] or nil
ReturnScan(p) ==
    /\ procs[p].pc = "walk"
    /\ procs[p].k > Len(CallsOf(procs[p]))
    /\ procs' = [procs EXCEPT ![p].pc = "done", ![p].k = 0]
    /\ UNCHANGED <<trieVars, heap, arrays, matchPool, matchStructPool>>

\* ReleaseMatches(matches) on the result of Match, its caller having done
\* with it: tr.matchStructPool.Put(m) for the next m of matches
ReleaseStruct(p) ==
    /\ procs[p].pc = "done" \/ procs[p].pc = "release"
    /\ procs[p].op = "Match"
    /\ procs[p].k < procs[p].hdr.len
    /\ matchStructPool' = matchStructPool \cup {arrays[procs[p].hdr.arr][procs[p].k + 1]}
    /\ procs' = [procs EXCEPT ![p].pc = "release", ![p].k = @ + 1]
    /\ UNCHANGED <<trieVars, heap, arrays, matchPool>>

\* the end of ReleaseMatches: tr.matchPool.Put(matches)
ReleaseSlice(p) ==
    /\ procs[p].pc = "done" \/ procs[p].pc = "release"
    /\ procs[p].op = "Match"
    /\ procs[p].k = procs[p].hdr.len
    /\ matchPool' = matchPool \cup {procs[p].hdr}
    /\ procs' = [procs EXCEPT ![p].pc = "released"]
    /\ UNCHANGED <<trieVars, heap, arrays, matchStructPool>>

PooledNext ==
    \/ \E p \in Scans, input \in PooledInputs : StartScan(p, "Match", input)
    \/ \E p \in Scans, input \in PooledInputs : StartScan(p, "MatchFirst", input)
    \/ \E p \in Scans : GetSlice(p)
    \/ \E p \in Scans : AcquireStruct(p)
    \/ \E p \in Scans : FillStruct(p)
    \/ \E p \in Scans : ReturnScan(p)
    \/ \E p \in Scans : ReleaseStruct(p)
    \/ \E p \in Scans : ReleaseSlice(p)

\* concurrent scans of one Trie, every interleaving of their steps
SpecPooled == PooledInit /\ [][PooledNext]_vars

\* what the caller of a finished scan reads from its result
ResultOf(pr) ==
    LET elems == [k \in 1 .. pr.hdr.len |-> heap[arrays[pr.hdr.arr][k]]]
    IN IF pr.op = "Match" THEN elems
       ELSE IF pr.hdr.len = 0 THEN NoMatch ELSE elems[1]

\* what the scan returns when it runs alone
AloneResult(pr) ==
    LET all == Match(trie, pr.input)
    IN IF pr.op = "Match" THEN all
       ELSE IF all = <<>> THEN NoMatch ELSE all[1]

\* C7: whatever the other scans do meanwhile, and whichever buffers the
\* pools hand out, a finished scan's result, for as long as its caller has
\* not released it, is the result of the same scan run alone.
C7_ConcurrentScansAsSequential ==
    \A p \in Scans :
        procs[p].pc = "done" => ResultOf(procs[p]) = AloneResult(procs[p])

\* a scan takes from the pool a struct that another scan, still inside
\* ReleaseMatches, has just put back, and a scan finishes with a result in
\* which such a struct is reused
C7_Witness ==
    \E p, q \in Scans :
        /\ p # q
        /\ procs[p].pc = "release"
        /\ procs[p].k < procs[p].hdr.len
        /\ procs[q].pc = "done"
        /\ procs[q].hdr.len > 0
        /\ \E j \in 1 .. procs[p].k, k \in 1 .. procs[q].hdr.len :
              arrays[procs[q].hdr.arr][k] = arrays[procs[p].hdr.arr][j]

-----------------------------------------------------------------------------
(* Claims about the empty pattern and the links, checked under Spec *)

\* the patterns of pats that are not empty, in order
RECURSIVE NonEmpty(_)
NonEmpty(pats) ==
    IF pats = <<>> THEN <<>>
    ELSE IF Head(pats) = <<>> THEN NonEmpty(Tail(pats))
    ELSE <<Head(pats)>> \o NonEmpty(Tail(pats))

\* the builder after the calls of added that had a non-empty pattern
BuilderWithoutEmpty ==
    AddPatterns([states |-> NewStates, numPatterns |-> 0], NonEmpty(added), 1)

\* what Match returns on the automaton built without the empty patterns,
\* for the map order desc
MatchWithoutEmpty(desc, input) ==
    Match(BuildTrie(BuilderWithoutEmpty.states, desc).trie, input)

\* the index, among the calls of pats, of the call that is call number j
\* (from 0) among those with a non-empty pattern
IndexAmongAll(pats, j) ==
    (CHOOSE k \in 1 .. Len(pats) :
        /\ pats[k] # <<>>
        /\ Len(NonEmpty(SubSeq(pats, 1, k))) = j + 1) - 1

\* C11 as stated: AddPattern of the empty pattern creates no state, leaves
\* the root not accepting, no scan reports a match of length 0, and Match
\* returns the same matches, pattern indices included, as on the automaton
\* built from the other patterns alone.
C11_AsStated ==
    /\ NumStates(states) = NumStates(BuilderWithoutEmpty.states)
    /\ states[rootState].dict = 0
    /\ scan.op = "Walk" => \A k \in 1 .. Len(scan.calls) : scan.calls[k].n > 0
    /\ scan.op = "Match" =>
          \A desc \in SUBSET Branching(BuilderWithoutEmpty.states) :
             scan.matches = MatchWithoutEmpty(desc, scan.input)

\* C11, amended: AddPattern of the empty pattern creates no state and no
\* transition, leaves the root (and every state) with the dictionary length
\* it had, and takes the next pattern index; no scan reports a match of
\* length 0, and Match returns the matches of the automaton built from the
\* other patterns alone, with the same start and bytes in the same order,
\* each under the index its pattern has among all the calls made.
C11_EmptyPatternTakesAnIndex ==
    LET tb == BuilderWithoutEmpty
    IN /\ DOMAIN states = DOMAIN tb.states
       /\ \A s \in DOMAIN states :
             /\ DOMAIN states[s].trans = DOMAIN tb.states[s].trans
             /\ \A c \in DOMAIN states[s].trans : states[s].trans[c] = tb.states[s].trans[c]
             /\ states[s].dict = tb.states[s].dict
       /\ states[rootState].dict = 0
       /\ numPatterns = Len(added)
       /\ scan.op = "Walk" => \A k \in 1 .. Len(scan.calls) : scan.calls[k].n > 0
       /\ scan.op = "Match" =>
             \A desc \in SUBSET Branching(tb.states) :
                LET other == MatchWithoutEmpty(desc, scan.input)
                IN /\ Len(scan.matches) = Len(other)
                   /\ \A k \in 1 .. Len(other) :
                         /\ scan.matches[k].pos = other[k].pos
                         /\ scan.matches[k].match = other[k].match
                         /\ scan.matches[k].match # <<>>
                         /\ scan.matches[k].pattern = IndexAmongAll(added, other[k].pattern)

\* a Match scan, on an automaton whose first pattern added was the empty
\* one, that reported the pattern added after it
C11_Witness ==
    /\ scan.op = "Match"
    /\ Len(added) > 1
    /\ added[1] = <<>>
    /\ \E k \in 1 .. Len(scan.matches) : scan.matches[k].pattern = 1

\* the string a state stands for: the bytes on the path from the root to it
RECURSIVE StringOf(_, _)
StringOf(sts, s) ==
    IF s = rootState THEN <<>>
    ELSE Append(StringOf(sts, sts[s].parent), sts[s].value)

Depth(sts, s) == Len(StringOf(sts, s))

\* the state reached from s along the bytes w[k ..], or 0 when the trie has
\* no such path
RECURSIVE PathFrom(_, _, _, _)
PathFrom(sts, s, w, k) ==
    IF k > Len(w) THEN s
    ELSE IF w[k] \in DOMAIN sts[s].trans THEN PathFrom(sts, sts[s].trans[w[k]], w, k + 1)
    ELSE 0

\* the state of the longest proper suffix of t's string that is a path from
\* the root; the empty suffix is the root's
LongestSuffixState(sts, t) ==
    LET w == StringOf(sts, t)
        cut == CHOOSE k \in 1 .. Len(w) :
                  /\ PathFrom(sts, rootState, w, k + 1) # 0
                  /\ \A j \in 1 .. k - 1 : PathFrom(sts, rootState, w, j + 1) = 0
    IN PathFrom(sts, rootState, w, cut + 1)

\* the failure links of sts are the longest-proper-suffix states
FailLinksRight(sts) ==
    \A t \in DOMAIN sts \ {nilState, rootState} :
        /\ sts[t].failLink = LongestSuffixState(sts, t)
        /\ Depth(sts, sts[t].failLink) < Depth(sts, t)

\* C12: after computeFailLinks the failure link of every state but the root
\* is the state of the longest proper suffix of its string that is a path
\* from the root (the root when only the empty suffix is), at a strictly
\* smaller depth, whichever order the children of each state are visited in.
C12_FailLinkIsLongestSuffix ==
    IF trie.built THEN FailLinksRight(states)
    ELSE \A desc \in SUBSET Branching(states) :
            FailLinksRight(computeFailLinks(states, desc))

\* a built trie with a state at depth 3 whose failure link is at depth 1,
\* its parent's being at depth 1 too (found on the second state of the
\* chain), and a state whose failure link is neither the root nor a child
\* of the root
C12_Witness ==
    /\ trie.built
    /\ \E t \in DOMAIN states \ {nilState, rootState} :
          /\ Depth(states, t) = 3
          /\ Depth(states, states[t].failLink) = 1
          /\ Depth(states, states[states[t].parent].failLink) = 1
    /\ \E t \in DOMAIN states \ {nilState, rootState} :
          Depth(states, states[t].failLink) = 2

\* one step of the goto/failure automaton on the uncompiled trie: failure
\* links are followed from s until a state has a transition on c, which is
\* taken; at the root a byte without a transition is dropped
RECURSIVE GotoFail(_, _, _)
GotoFail(sts, s, c) ==
    IF c \in DOMAIN sts[s].trans THEN sts[s].trans[c]
    ELSE IF s = rootState THEN rootState
    ELSE GotoFail(sts, sts[s].failLink, c)

\* the states the goto/failure automaton enters on input[k ..] from s
RECURSIVE GotoFailPath(_, _, _, _)
GotoFailPath(sts, s, input, k) ==
    IF k > Len(input) THEN <<>>
    ELSE LET next == GotoFail(sts, s, input[k])
         IN <<next>> \o GotoFailPath(sts, next, input, k + 1)

\* C13: the compiled table is the goto/failure automaton of the trie: for
\* every trie state s and byte c, failTrans[s][c] is the state reached from
\* s by following failure links to the first state with a transition on c
\* and taking it, the root when there is none; so a walk enters, after each
\* byte, the state the goto/failure automaton enters.
C13_TableIsGotoFailure ==
    trie.built =>
        /\ \A s \in 1 .. NumStates(states) - 1 :
              \A c \in Alphabet : trie.failTrans[s][c] = GotoFail(states, s, c)
        /\ scan.op = "Walk" =>
              /\ ~scan.stopped => Len(scan.path) = Len(scan.input)
              /\ scan.path = SubSeq(GotoFailPath(states, rootState, scan.input, 1),
                                    1, Len(scan.path))

\* a walk that, on some byte, left a state for which neither the state nor
\* its failure link has a transition on the byte, for a state other than the
\* root
C13_Witness ==
    /\ scan.op = "Walk"
    /\ \E k \in 2 .. Len(scan.path) :
          LET prev == scan.path[k - 1]
              c == scan.input[k]
          IN /\ c \notin DOMAIN states[prev].trans
             /\ c \notin DOMAIN states[states[prev].failLink].trans
             /\ scan.path[k] # rootState

-----------------------------------------------------------------------------
(* The builder with more patterns, Build and a walk, as a state machine *)

\* most AddPattern calls made on one builder of SpecLinks
MaxLinkPatterns == 3

LinksNext ==
    \/ \E pattern \in Patterns : AddPatternWithin(pattern, MaxLinkPatterns)
    \/ Build
    \/ \E input \in Inputs : DoWalk(input, 0)

SpecLinks == Init /\ [][LinksNext]_vars

\* the failure-link chain of s, s itself left out: s.failLink, its failLink,
\* and so on up to the root
RECURSIVE FailChain(_, _)
FailChain(sts, s) ==
    IF sts[s].failLink = 0 THEN <<>>
    ELSE <<sts[s].failLink>> \o FailChain(sts, sts[s].failLink)

\* the nearest state of s's failure-link chain with a dictionary length > 0,
\* or 0 when the chain has none
NearestAccepting(sts, s) ==
    LET chain == FailChain(sts, s)
        hits == {k \in 1 .. Len(chain) : sts[chain[k]].dict > 0}
    IN IF hits = {} THEN 0
       ELSE chain[CHOOSE k \in hits : \A j \in hits : k <= j]

\* the states met by following dictLink from s, s itself left out, up to the
\* sentinel or for n steps
RECURSIVE DictPath(_, _, _)
DictPath(tr, s, n) ==
    IF n = 0 \/ tr.dictLink[s] = nilState THEN <<>>
    ELSE <<tr.dictLink[s]>> \o DictPath(tr, tr.dictLink[s], n - 1)

\* C14: after Build, dictLink[s] of every state s is the nearest state of
\* s's failure-link chain (s left out) with dict > 0, and the sentinel 0
\* when there is none; following dictLink from any state meets accepting
\* states only, none of them twice, and reaches the sentinel in fewer steps
\* than there are states; the dictionary link traversal of a walk reports
\* exactly those states.
C14_DictLinkChain ==
    trie.built =>
        LET n == NumStates(states)
        IN /\ \A s \in DOMAIN trie.dictLink :
                 LET path == DictPath(trie, s, n)
                 IN /\ trie.dictLink[s] = NearestAccepting(states, s)
                    /\ Len(path) < n
                    /\ \A k \in 1 .. Len(path) : trie.dict[path[k]] > 0
                    /\ \A j, k \in 1 .. Len(path) : j # k => path[j] # path[k]
                    /\ \A k \in 1 .. Len(path) : path[k] # s
           /\ scan.op = "Walk" =>
                 \A i \in 1 .. Len(scan.path) :
                    LET s == scan.path[i]
                        at == SelectSeq(scan.calls, LAMBDA call : call.end = i - 1)
                        path == IF trie.dict[s] # 0 THEN <<s>> \o DictPath(trie, s, n)
                                ELSE DictPath(trie, s, n)
                    IN at = [k \in 1 .. Len(path) |->
                                [end |-> i - 1, n |-> trie.dict[path[k]],
                                 pattern |-> trie.pattern[path[k]]]]

\* a walk that entered an accepting state from which two dictionary links
\* lead to the sentinel, and reported the three matches at that position
C14_Witness ==
    /\ scan.op = "Walk"
    /\ \E i \in 1 .. Len(scan.path) :
          /\ trie.dict[scan.path[i]] > 0
          /\ Len(DictPath(trie, scan.path[i], NumStates(states))) = 2
          /\ Len(SelectSeq(scan.calls, LAMBDA call : call.end = i - 1)) = 3

====
